---- MODULE Spec2Model ----
(***************************************************************************)
(* A model of the 2048 game engine of src/script.js: the line resolution   *)
(* algorithm (slideAndCombine), the four moves, the terminal check, the    *)
(* bounded undo history, the timed countdown and the localStorage          *)
(* save/resume of a session.                                               *)
(*                                                                         *)
(* Encoding of JavaScript values:                                          *)
(*   - a board cell is a natural number; the empty cell (JS null) is 0;    *)
(*   - a value that may be a number or null outside the board (a           *)
(*     snapshot's timeRemaining) and every value inside the JSON text of   *)
(*     localStorage is a tagged tuple: <<"number", n>>, <<"boolean", b>>,  *)
(*     <<"null">>, <<"array", seq>>, <<"object", record>>.                 *)
(***************************************************************************)
EXTENDS Integers, Sequences, FiniteSets, TLC

\* ------------------------------------------------------------------------
\* Program constants
\* ------------------------------------------------------------------------
SIZE == 4

null == 0

WinValue == 2048

HistoryLimit == 3

InitialUndos == 3

DefaultTime == 300

\* ------------------------------------------------------------------------
\* Bounds of the model
\* ------------------------------------------------------------------------
\* largest exponent of a tile in the lines given to slideAndCombine (SpecLine)
MaxExp == 11

\* number of cells (row-major) that range over {null, 2, 4} in the boards
\* given to the moves (SpecBoard); the other cells follow a background
FreeCells == 6

\* successful moves, timer callbacks, new games and page loads in one run
MaxMoves == 2

\* successful moves in one run of SpecPlay
MaxPlayMoves == 4

MaxTicks == 2

MaxStarts == 1

MaxLoads == 1

\* clicks on the home and the exit button in one run
MaxLeaves == 1

\* sessions started in one run of SpecDraw
MaxDrawStarts == 2

\* successful moves in one run of SpecDraw
MaxDrawMoves == 1

VARIABLES
  array,            \* SpecLine: the line handed to slideAndCombine
  lineRes,          \* SpecLine: what slideAndCombine made of it
  board,            \* let board
  score,            \* let score
  bestScore,        \* let bestScore
  won,              \* let won
  historyStack,     \* let historyStack
  undosRemaining,   \* let undosRemaining
  isTimedGame,      \* let isTimedGame
  timeRemaining,    \* let timeRemaining
  timerInterval,    \* let timerInterval: "null", or the kind of interval it names
  intervals,        \* the live setInterval callbacks, counted per kind
  screen,           \* which of home / settings / game screen is shown
  messageDisplay,   \* messageContainer.style.display
  messageText,      \* messageText.textContent
  keepPlayingShown, \* keepPlayingButton.style.display = 'inline-block'
  lsGameState,      \* localStorage 'gameState': <<>> (absent) or <<json>>
  lsBestScore,      \* localStorage 'bestScore': <<>> (absent) or <<n>>
  notes,            \* history variable: notifications emitted in this session
  lastOp,           \* history variable: the handler that ran last
  streak,           \* history variable: the states before the latest successful moves
  count             \* history variable: how often the bounded inputs were used

vars == <<array, lineRes, board, score, bestScore, won, historyStack,
          undosRemaining, isTimedGame, timeRemaining, timerInterval,
          intervals, screen, messageDisplay, messageText, keepPlayingShown,
          lsGameState, lsBestScore, notes, lastOp, streak, count>>

\* ------------------------------------------------------------------------
\* Arrays
\* ------------------------------------------------------------------------
Rows == 1..SIZE

\* array.filter(x => x !== null)
filterNotNull(a) == SelectSeq(a, LAMBDA x : x # null)

\* array.reverse()
RECURSIVE reverse(_)
reverse(a) == IF a = <<>> THEN <<>> ELSE Append(reverse(Tail(a)), Head(a))

\* while (newArr.length < SIZE) newArr.push(null)
RECURSIVE padNull(_)
padNull(a) == IF Len(a) < SIZE THEN padNull(Append(a, null)) ELSE a

\* arraysEqual(a, b): compares the first a.length positions
arraysEqual(a, b) == \A i \in 1..Len(a) : a[i] = b[i]

\* the entries of a that sit where keep holds a tile
RECURSIVE keepWhere(_, _)
keepWhere(a, keep) ==
  IF a = <<>> THEN <<>>
  ELSE IF Head(keep) # null THEN <<Head(a)>> \o keepWhere(Tail(a), Tail(keep))
       ELSE keepWhere(Tail(a), Tail(keep))

\* an array of n copies of x
RECURSIVE repeat(_, _)
repeat(x, n) == IF n = 0 THEN <<>> ELSE Append(repeat(x, n - 1), x)

createEmptyBoard == repeat(repeat(null, SIZE), SIZE)

\* ------------------------------------------------------------------------
\* slideAndCombine
\* ------------------------------------------------------------------------
\* The merge loop of slideAndCombine from index i on.  st carries the local
\* arr, the globals the loop writes (score, won), the number of
\* showMessage('You win!') calls, the number of merges, and parts: for every
\* position of arr the number of tiles of the input line that it holds.
\* a variant of isWinMerge that forgets the won flag
isWinMergeAgain(v, wn) == v = WinValue

\* if (arr[i] === 2048 && !won)
isWinMerge(v, wn) == v = WinValue /\ ~wn

RECURSIVE combineChain(_, _)
combineChain(st, i) ==
  IF i > Len(st.arr) - 1 THEN st
  ELSE IF st.arr[i] = st.arr[i + 1]
       THEN LET v     == st.arr[i] * 2
                isWin == isWinMerge(v, st.won)
                drop(a) == SubSeq(a, 1, i) \o SubSeq(a, i + 2, Len(a))
            IN combineChain(
                 [arr    |-> drop([st.arr EXCEPT ![i] = v]),
                  parts  |-> drop([st.parts EXCEPT ![i] = st.parts[i] + st.parts[i + 1]]),
                  score  |-> st.score + v,
                  won    |-> st.won \/ isWin,
                  wins   |-> st.wins + (IF isWin THEN 1 ELSE 0),
                  merges |-> st.merges + 1], i)
       ELSE combineChain(st, i + 1)

\* a variant of combine whose merge keeps the value of the first tile
\* instead of doubling it
RECURSIVE combineUndoubled(_, _)
combineUndoubled(st, i) ==
  IF i > Len(st.arr) - 1 THEN st
  ELSE IF st.arr[i] = st.arr[i + 1]
       THEN combineUndoubled(
              [arr    |-> [st.arr EXCEPT ![i + 1] = null],
               parts  |-> [st.parts EXCEPT ![i] = st.parts[i] + st.parts[i + 1],
                                           ![i + 1] = 0],
               score  |-> st.score + st.arr[i],
               won    |-> st.won,
               wins   |-> st.wins,
               merges |-> st.merges + 1], i + 1)
       ELSE combineUndoubled(st, i + 1)

RECURSIVE combine(_, _)
combine(st, i) ==
  IF i > Len(st.arr) - 1 THEN st
  ELSE IF st.arr[i] = st.arr[i + 1]
       THEN LET v     == st.arr[i] * 2
                isWin == isWinMerge(v, st.won)
            IN combine(
                 [arr    |-> [st.arr EXCEPT ![i] = v, ![i + 1] = null],
                  parts  |-> [st.parts EXCEPT ![i] = st.parts[i] + st.parts[i + 1],
                                              ![i + 1] = 0],
                  score  |-> st.score + v,
                  won    |-> st.won \/ isWin,
                  wins   |-> st.wins + (IF isWin THEN 1 ELSE 0),
                  merges |-> st.merges + 1], i + 1)
       ELSE combine(st, i + 1)

\* let arr = array.filter(x => x !== null), before the merge loop
startLine(arr0, sc, wn) ==
  [arr |-> arr0, parts |-> repeat(1, Len(arr0)),
   score |-> sc, won |-> wn, wins |-> 0, merges |-> 0]

\* a variant of finishLine without the second filter
finishLineUnfiltered(st) ==
  [arr    |-> st.arr \o repeat(null, SIZE - Len(st.arr)),
   parts  |-> st.parts \o repeat(0, SIZE - Len(st.parts)),
   score  |-> st.score,
   won    |-> st.won,
   wins   |-> st.wins,
   merges |-> st.merges]

\* the second filter and the padding, after the merge loop
finishLine(st) ==
  [arr    |-> padNull(filterNotNull(st.arr)),
   parts  |-> padNull(keepWhere(st.parts, st.arr)),
   score  |-> st.score,
   won    |-> st.won,
   wins   |-> st.wins,
   merges |-> st.merges]

\* slideAndCombine(array) with the globals score and won passed in and out
slideAndCombine(a, sc, wn) == finishLine(combine(startLine(filterNotNull(a), sc, wn), 1))

\* ------------------------------------------------------------------------
\* The four moves.  m = [board, score, won, wins, merges, changed]
\* ------------------------------------------------------------------------
startMove(b, sc, wn) ==
  [board |-> b, score |-> sc, won |-> wn, wins |-> 0, merges |-> 0, changed |-> FALSE]

\* for (let r = 0; r < SIZE; r++) column.push(board[r][c])
RECURSIVE columnFrom(_, _, _)
columnFrom(b, c, r) == IF r > SIZE THEN <<>> ELSE <<b[r][c]>> \o columnFrom(b, c, r + 1)

column(b, c) == columnFrom(b, c, 1)

\* for (let r = 0; r < SIZE; r++) board[r][c] = newColumn[r]
RECURSIVE setColumnFrom(_, _, _, _)
setColumnFrom(b, c, col, r) ==
  IF r > SIZE THEN b ELSE setColumnFrom([b EXCEPT ![r][c] = col[r]], c, col, r + 1)

setColumn(b, c, col) == setColumnFrom(b, c, col, 1)

\* if (!arraysEqual(row, newRow)) { board[r] = newRow; changed = true }
storeRow(m, r, res, newRow) ==
  LET differ == ~arraysEqual(m.board[r], newRow)
  IN [board   |-> IF differ THEN [m.board EXCEPT ![r] = newRow] ELSE m.board,
      score   |-> res.score,
      won     |-> res.won,
      wins    |-> m.wins + res.wins,
      merges  |-> m.merges + res.merges,
      changed |-> m.changed \/ differ]

resultRow(m, r, rev, res) ==
  storeRow(m, r, res, IF rev THEN reverse(res.arr) ELSE res.arr)

\* one iteration of the row loop of moveLeft / moveRight
stepRow(m, r, rev) ==
  resultRow(m, r, rev,
            slideAndCombine(IF rev THEN reverse(m.board[r]) ELSE m.board[r],
                            m.score, m.won))

\* the loop that writes newColumn back, setting changed where a cell differs
storeColumn(m, c, res, newCol) ==
  [board   |-> setColumn(m.board, c, newCol),
   score   |-> res.score,
   won     |-> res.won,
   wins    |-> m.wins + res.wins,
   merges  |-> m.merges + res.merges,
   changed |-> m.changed \/ \E r \in Rows : m.board[r][c] # newCol[r]]

resultColumn(m, c, rev, res) ==
  storeColumn(m, c, res, IF rev THEN reverse(res.arr) ELSE res.arr)

\* one iteration of the column loop of moveUp / moveDown
stepColumn(m, c, rev) ==
  resultColumn(m, c, rev,
               slideAndCombine(IF rev THEN reverse(column(m.board, c))
                               ELSE column(m.board, c),
                               m.score, m.won))

RECURSIVE rowLoop(_, _, _)
rowLoop(m, r, rev) == IF r > SIZE THEN m ELSE rowLoop(stepRow(m, r, rev), r + 1, rev)

RECURSIVE columnLoop(_, _, _)
columnLoop(m, c, rev) == IF c > SIZE THEN m ELSE columnLoop(stepColumn(m, c, rev), c + 1, rev)

moveLeft(b, sc, wn) == rowLoop(startMove(b, sc, wn), 1, FALSE)

\* a variant of moveRight that does not reverse the rows
moveRightUnreversed(b, sc, wn) == moveLeft(b, sc, wn)

moveRight(b, sc, wn) == rowLoop(startMove(b, sc, wn), 1, TRUE)

moveUp(b, sc, wn) == columnLoop(startMove(b, sc, wn), 1, FALSE)

moveDown(b, sc, wn) == columnLoop(startMove(b, sc, wn), 1, TRUE)

Keys == {"ArrowLeft", "ArrowRight", "ArrowUp", "ArrowDown"}

\* the switch of handleKey (and the swipe dispatch of handleTouchEnd)
moveByKey(key, b, sc, wn) ==
  CASE key = "ArrowLeft"  -> moveLeft(b, sc, wn)
    [] key = "ArrowRight" -> moveRight(b, sc, wn)
    [] key = "ArrowUp"    -> moveUp(b, sc, wn)
    [] key = "ArrowDown"  -> moveDown(b, sc, wn)

\* ------------------------------------------------------------------------
\* isGameOver
\* ------------------------------------------------------------------------
\* a variant of isGameOver that looks at the neighbour to the right only
isGameOverAlongRows(b) ==
  /\ \A r \in Rows : \A c \in Rows : b[r][c] # null
  /\ \A r \in Rows : \A c \in Rows : ~(c < SIZE /\ b[r][c + 1] = b[r][c])

isGameOver(b) ==
  /\ \A r \in Rows : \A c \in Rows : b[r][c] # null
  /\ \A r \in Rows : \A c \in Rows :
       /\ ~(r < SIZE /\ b[r + 1][c] = b[r][c])
       /\ ~(c < SIZE /\ b[r][c + 1] = b[r][c])

\* ------------------------------------------------------------------------
\* JavaScript values and JSON
\* ------------------------------------------------------------------------
jsNumber(n) == <<"number", n>>

jsBoolean(b) == <<"boolean", b>>

jsNull == <<"null">>

jsUndefined == <<"undefined">>

jsArray(s) == <<"array", s>>

jsObject(r) == <<"object", r>>

jsString(t) == <<"string", t>>

\* typeof v === 'number'
isNumber(v) == v[1] = "number"

\* Array.isArray(v)
isArray(v) == v[1] = "array"

\* !!v for the values a record can hold
truthy(v) ==
  CASE v[1] = "boolean" -> v[2]
    [] v[1] = "number"  -> v[2] # 0
    [] v[1] = "array"   -> TRUE
    [] v[1] = "object"  -> TRUE
    [] v[1] = "string"  -> v[2] # ""
    [] OTHER            -> FALSE

\* a board cell as JSON.stringify writes it, and as JSON.parse reads it back
cellToJSON(x) == IF x = null THEN jsNull ELSE jsNumber(x)

cellFromJSON(v) == IF v[1] = "null" THEN null ELSE v[2]

boardToJSON(b) ==
  jsArray([r \in 1..Len(b) |-> jsArray([c \in 1..Len(b[r]) |-> cellToJSON(b[r][c])])])

\* state.board.map(row => row.map(cell => (cell === null ? null : cell)))
\* and item.board.map(row => row.slice()), read from the parsed JSON
boardFromJSON(v) ==
  [r \in 1..Len(v[2]) |-> [c \in 1..Len(v[2][r][2]) |-> cellFromJSON(v[2][r][2][c])]]

\* { board, score, timeRemaining, isTimedGame } of pushCurrentState,
\* handleKey and handleTouchEnd
snapshotOf(w) ==
  [board         |-> w.board,
   score         |-> w.score,
   timeRemaining |-> IF w.isTimedGame THEN jsNumber(w.timeRemaining) ELSE jsNull,
   isTimedGame   |-> w.isTimedGame]

itemToJSON(item) ==
  jsObject([board         |-> boardToJSON(item.board),
            score         |-> jsNumber(item.score),
            timeRemaining |-> item.timeRemaining,
            isTimedGame   |-> jsBoolean(item.isTimedGame)])

itemFromJSON(v) ==
  [board         |-> boardFromJSON(v[2].board),
   score         |-> v[2].score[2],
   timeRemaining |-> v[2].timeRemaining,
   isTimedGame   |-> v[2].isTimedGame[2]]

\* a variant of stringifyState that leaves undosRemaining out of the record
stringifyStateWithoutUndos(w) ==
  jsObject([board          |-> boardToJSON(w.board),
            score          |-> jsNumber(w.score),
            bestScore      |-> jsNumber(w.bestScore),
            isTimedGame    |-> jsBoolean(w.isTimedGame),
            timeRemaining  |-> jsNumber(w.timeRemaining),
            won            |-> jsBoolean(w.won),
            historyStack   |-> jsArray([i \in 1..Len(w.historyStack) |->
                                          itemToJSON(w.historyStack[i])]),
            undosRemaining |-> jsUndefined])

\* JSON.stringify(state) of saveGameState
stringifyState(w) ==
  jsObject([board          |-> boardToJSON(w.board),
            score          |-> jsNumber(w.score),
            bestScore      |-> jsNumber(w.bestScore),
            isTimedGame    |-> jsBoolean(w.isTimedGame),
            timeRemaining  |-> jsNumber(w.timeRemaining),
            won            |-> jsBoolean(w.won),
            historyStack   |-> jsArray([i \in 1..Len(w.historyStack) |->
                                          itemToJSON(w.historyStack[i])]),
            undosRemaining |-> jsNumber(w.undosRemaining)])

\* ------------------------------------------------------------------------
\* The session: every handler maps a world w (the globals, the DOM state
\* the handlers read, localStorage) to the world it leaves behind.
\* w.setItemThrows says whether localStorage.setItem throws in this handler;
\* w.thrown says that an exception is on its way out of the handler, and
\* the statements it passes are skipped
\* ------------------------------------------------------------------------
World ==
  [board |-> board, score |-> score, bestScore |-> bestScore, won |-> won,
   historyStack |-> historyStack, undosRemaining |-> undosRemaining,
   isTimedGame |-> isTimedGame, timeRemaining |-> timeRemaining,
   timerInterval |-> timerInterval, intervals |-> intervals, screen |-> screen,
   messageDisplay |-> messageDisplay, messageText |-> messageText,
   keepPlayingShown |-> keepPlayingShown, lsGameState |-> lsGameState,
   lsBestScore |-> lsBestScore, notes |-> notes, moved |-> FALSE,
   setItemThrows |-> FALSE, thrown |-> FALSE]

NoNotes == [win |-> 0, over |-> 0, timeUp |-> 0]

NoIntervals == [main |-> 0, keep |-> 0]

\* the globals as the script's top level declares them, the page as
\* DOMContentLoaded leaves it, over a given localStorage
loadedPage(gameState, best) ==
  [board |-> <<>>, score |-> 0,
   bestScore |-> IF best # <<>> THEN best[1] ELSE 0,
   won |-> FALSE, historyStack |-> <<>>, undosRemaining |-> InitialUndos,
   isTimedGame |-> FALSE, timeRemaining |-> DefaultTime,
   timerInterval |-> "null", intervals |-> NoIntervals, screen |-> "home",
   messageDisplay |-> "", messageText |-> "", keepPlayingShown |-> FALSE,
   lsGameState |-> gameState, lsBestScore |-> best, notes |-> NoNotes,
   moved |-> FALSE, setItemThrows |-> FALSE, thrown |-> FALSE]

\* clearInterval(timerInterval)
clearInterval(w) ==
  IF w.timerInterval = "null" THEN w
  ELSE [w EXCEPT !.intervals[w.timerInterval] = @ - 1]

\* timerInterval = setInterval(...)
setInterval(w, kind) ==
  [w EXCEPT !.intervals[kind] = @ + 1, !.timerInterval = kind]

stopTimer(w) ==
  IF w.timerInterval # "null"
  THEN [clearInterval(w) EXCEPT !.timerInterval = "null"]
  ELSE w

\* try { localStorage.setItem('gameState', ...) } catch (e) { console.warn }
saveGameState(w) ==
  IF w.thrown \/ w.setItemThrows THEN w
  ELSE [w EXCEPT !.lsGameState = <<stringifyState(w)>>]

clearGameState(w) == [w EXCEPT !.lsGameState = <<>>]

\* bestScore = score; localStorage.setItem('bestScore', bestScore): the
\* write is not inside a try, its exception leaves the handler
updateScoreDisplay(w) ==
  IF w.thrown \/ ~(w.score > w.bestScore) THEN w
  ELSE IF w.setItemThrows THEN [w EXCEPT !.bestScore = w.score, !.thrown = TRUE]
  ELSE [w EXCEPT !.bestScore = w.score, !.lsBestScore = <<w.score>>]

hideMessage(w) == IF w.thrown THEN w ELSE [w EXCEPT !.messageDisplay = "none"]

\* /win/i.test(text) and text.includes('win') agree on the three texts used
isWinText(text) == text = "You win!"

showMessage(w, text) ==
  LET w1 == IF w.isTimedGame /\ ~isWinText(text) THEN stopTimer(w) ELSE w
      w2 == IF ~isWinText(text) THEN clearGameState(w1) ELSE w1
  IN [w2 EXCEPT !.messageText = text,
                !.messageDisplay = "flex",
                !.keepPlayingShown = isWinText(text),
                !.notes = CASE text = "You win!"  -> [@ EXCEPT !.win = @ + 1]
                            [] text = "Game Over" -> [@ EXCEPT !.over = @ + 1]
                            [] OTHER              -> [@ EXCEPT !.timeUp = @ + 1]]

\* the callback startTimer schedules
timerCallback(w) ==
  LET w1 == saveGameState([w EXCEPT !.timeRemaining = @ - 1])
  IN IF w1.timeRemaining <= 0
     THEN showMessage([clearInterval(w1) EXCEPT !.timerInterval = "null"],
                      "Time's up! Game Over")
     ELSE w1

\* the callback the keep-playing button schedules
keepPlayingCallback(w) ==
  LET w1 == [w EXCEPT !.timeRemaining = @ - 1]
  IN IF w1.timeRemaining <= 0
     THEN showMessage([clearInterval(w1) EXCEPT !.timerInterval = "null"],
                      "Time's up! Game Over")
     ELSE w1

startTimer(w, initial) ==
  LET w1 == stopTimer(w)
      w2 == [w1 EXCEPT !.timeRemaining = IF isNumber(initial) THEN initial[2]
                                         ELSE DefaultTime]
  IN setInterval(w2, "main")

\* ------------------------------------------------------------------------
\* spawnTile, initGame, startGame
\* ------------------------------------------------------------------------
\* the values Math.random() returns, in tenths: rnd.cell when spawnTile picks
\* the cell, rnd.tenths when it picks the value
RandomCells == {0}

RandomTenths == {0}

Randoms == [cell : RandomCells, tenths : RandomTenths]

cellRow(i) == ((i - 1) \div SIZE) + 1

cellCol(i) == ((i - 1) % SIZE) + 1

\* emptyCells of spawnTile, in the order the two loops push them
emptyCells(b) ==
  SelectSeq([i \in 1..(SIZE * SIZE) |-> i], LAMBDA i : b[cellRow(i)][cellCol(i)] = null)

\* a variant of spawnTile that puts a 1 where spawnTile puts a 2
spawnTileOne(b, rnd) ==
  LET e == emptyCells(b)
  IN IF Len(e) = 0 THEN b
     ELSE LET i == e[((rnd.cell * Len(e)) \div 10) + 1]
          IN [b EXCEPT ![cellRow(i)][cellCol(i)] = IF rnd.tenths < 9 THEN 1 ELSE 4]

spawnTile(b, rnd) ==
  LET e == emptyCells(b)
  IN IF Len(e) = 0 THEN b
     ELSE LET i == e[((rnd.cell * Len(e)) \div 10) + 1]
          IN [b EXCEPT ![cellRow(i)][cellCol(i)] = IF rnd.tenths < 9 THEN 2 ELSE 4]

\* a variant of initGame that keeps the history and the undo counter
initGameKeepHistory(w, rnd1, rnd2) ==
  saveGameState(updateScoreDisplay(hideMessage(
    [w EXCEPT !.board = spawnTile(spawnTile(createEmptyBoard, rnd1), rnd2),
              !.score = 0,
              !.won = FALSE])))

initGame(w, rnd1, rnd2) ==
  LET w1 == [w EXCEPT !.board = spawnTile(spawnTile(createEmptyBoard, rnd1), rnd2),
                      !.score = 0,
                      !.won = FALSE]
      w2 == saveGameState(updateScoreDisplay(hideMessage(w1)))
  IN IF w2.thrown THEN w2
     ELSE [w2 EXCEPT !.historyStack = <<>>, !.undosRemaining = InitialUndos]

\* customMinutes is undefined or a number of hundredths of a minute
startGame(w, timed, customMinutes, rnd1, rnd2) ==
  LET w1 == [clearGameState(w) EXCEPT !.isTimedGame = timed, !.screen = "game",
                                      !.notes = NoNotes]
      w2 == initGame(w1, rnd1, rnd2)
      seconds == IF isNumber(customMinutes) /\ customMinutes[2] > 0
                 THEN jsNumber((customMinutes[2] * 60) \div 100)
                 ELSE jsUndefined
  IN IF w2.thrown THEN w2
     ELSE IF w2.isTimedGame THEN startTimer(w2, seconds) ELSE stopTimer(w2)

\* ------------------------------------------------------------------------
\* handleKey, handleTouchEnd
\* ------------------------------------------------------------------------
\* a variant of pushHistory that never drops a snapshot
pushHistoryKeepAll(h, snapshot) == Append(h, snapshot)

\* historyStack.push(snapshot); if (historyStack.length > 3) historyStack.shift()
pushHistory(h, snapshot) ==
  LET h1 == Append(h, snapshot)
  IN IF Len(h1) > HistoryLimit THEN Tail(h1) ELSE h1

\* if (isGameOver()) showMessage('Game Over')
afterSave(w) ==
  IF w.thrown THEN w
  ELSE IF isGameOver(w.board) THEN showMessage(w, "Game Over") ELSE w

\* a variant of afterMove that does not look at moved
afterMoveAlways(w, snapshot, moved, rnd) ==
  afterSave(saveGameState(updateScoreDisplay(
    [w EXCEPT !.historyStack = pushHistory(@, snapshot),
              !.board = spawnTile(@, rnd)])))

\* a variant of afterMove that spawns two tiles
afterMoveSpawnTwice(w, snapshot, moved, rnd) ==
  IF ~moved THEN w
  ELSE afterSave(saveGameState(updateScoreDisplay(
         [w EXCEPT !.historyStack = pushHistory(@, snapshot),
                   !.board = spawnTile(spawnTile(@, rnd), rnd)])))

\* if (moved) { historyStack.push(snapshot); ...; spawnTile();
\*              updateScoreDisplay(); saveGameState(); ... }
afterMove(w, snapshot, moved, rnd) ==
  IF ~moved THEN w
  ELSE afterSave(saveGameState(updateScoreDisplay(
         [w EXCEPT !.historyStack = pushHistory(@, snapshot),
                   !.board = spawnTile(@, rnd)])))

\* a variant of applyMove in which the merges do not add to score
applyMoveOldScore(w, m) ==
  LET w1 == [w EXCEPT !.board = m.board, !.won = m.won]
  IN IF m.wins > 0 THEN showMessage(w1, "You win!") ELSE w1

\* the globals after the move m; its merges may have shown 'You win!'
applyMove(w, m) ==
  LET w1 == [w EXCEPT !.board = m.board, !.score = m.score, !.won = m.won]
  IN IF m.wins > 0 THEN showMessage(w1, "You win!") ELSE w1

\* moved = moveLeft() ...; the rest of the handler
moveResult(w, m, rnd) ==
  [afterMove(applyMove(w, m), snapshotOf(w), m.changed, rnd) EXCEPT !.moved = m.changed]

\* the body of handleKey and of handleTouchEnd from the move on
moveAndSpawn(w, key, rnd) ==
  moveResult(w, moveByKey(key, w.board, w.score, w.won), rnd)

handleKey(w, key, rnd) ==
  IF w.messageDisplay # "none" THEN w
  ELSE IF key \notin Keys THEN w
  ELSE moveAndSpawn(w, key, rnd)

abs(x) == IF x < 0 THEN -x ELSE x

max(x, y) == IF x > y THEN x ELSE y

handleTouchEnd(w, dx, dy, rnd) ==
  IF w.messageDisplay # "none" THEN w
  ELSE IF ~(max(abs(dx), abs(dy)) > 20) THEN w
  ELSE IF abs(dx) > abs(dy)
       THEN moveAndSpawn(w, IF dx > 0 THEN "ArrowRight" ELSE "ArrowLeft", rnd)
       ELSE moveAndSpawn(w, IF dy > 0 THEN "ArrowDown" ELSE "ArrowUp", rnd)

\* ------------------------------------------------------------------------
\* undoMove, resumeGame, the buttons
\* ------------------------------------------------------------------------
Last(s) == s[Len(s)]

Front(s) == SubSeq(s, 1, Len(s) - 1)

\* a variant of nothingToUndo that lets an undo pass at undosRemaining = 0
nothingToUndoBelowZero(w) == Len(w.historyStack) = 0 \/ w.undosRemaining < 0

\* a variant of nothingToUndo that forgets the undo counter
nothingToUndoInHistory(w) == Len(w.historyStack) = 0

\* if (historyStack.length === 0 || undosRemaining <= 0) return
nothingToUndo(w) == Len(w.historyStack) = 0 \/ w.undosRemaining <= 0

undoMove(w) ==
  IF nothingToUndo(w) THEN w
  ELSE LET lastState == Last(w.historyStack)
           w1 == [w EXCEPT !.historyStack = Front(@),
                           !.undosRemaining = @ - 1,
                           !.board = lastState.board,
                           !.score = lastState.score]
           w2 == IF lastState.isTimedGame
                 THEN LET t == IF lastState.timeRemaining[1] # "null"
                               THEN lastState.timeRemaining[2]
                               ELSE w1.timeRemaining
                      IN startTimer([w1 EXCEPT !.isTimedGame = TRUE,
                                               !.timeRemaining = t], jsNumber(t))
                 ELSE w1
       IN saveGameState(updateScoreDisplay(w2))

\* state.board of a parsed null, or row.map of a row that is no array,
\* throws a TypeError before anything is assigned
throwsAtBoard(saved) ==
  \/ saved[1] # "object"
  \/ /\ isArray(saved[2].board)
     /\ \E r \in 1..Len(saved[2].board[2]) : ~isArray(saved[2].board[2][r])

\* item.board.map(row => row.slice()) throws a TypeError for an item that
\* is null or has no board array, and for a row without slice
throwsAtItem(item) ==
  ~ /\ item[1] = "object"
    /\ isArray(item[2].board)
    /\ \A r \in 1..Len(item[2].board[2]) : item[2].board[2][r][1] \in {"array", "string"}

throwsAtHistory(state) ==
  /\ isArray(state.historyStack)
  /\ \E i \in 1..Len(state.historyStack[2]) : throwsAtItem(state.historyStack[2][i])

\* the assignments of resumeGame up to won
resumeFields(w, state) ==
  [w EXCEPT
     !.board = IF isArray(state.board) THEN boardFromJSON(state.board)
               ELSE createEmptyBoard,
     !.score = IF isNumber(state.score) THEN state.score[2] ELSE 0,
     !.bestScore = IF isNumber(state.bestScore) THEN state.bestScore[2] ELSE @,
     !.isTimedGame = truthy(state.isTimedGame),
     !.timeRemaining = IF isNumber(state.timeRemaining)
                       THEN state.timeRemaining[2] ELSE DefaultTime,
     !.won = truthy(state.won)]

\* historyStack, undosRemaining, the game screen
resumeHistory(w, state) ==
  [w EXCEPT
     !.historyStack = IF isArray(state.historyStack)
                      THEN [i \in 1..Len(state.historyStack[2]) |->
                              itemFromJSON(state.historyStack[2][i])]
                      ELSE <<>>,
     !.undosRemaining = IF isNumber(state.undosRemaining)
                        THEN state.undosRemaining[2] ELSE InitialUndos,
     !.screen = "game"]

\* updateScoreDisplay(); hideMessage(); the timer; catch (e) { console.warn }
resumeShow(w) ==
  IF w.thrown THEN [w EXCEPT !.thrown = FALSE]
  ELSE IF w.isTimedGame THEN startTimer(w, jsNumber(w.timeRemaining))
  ELSE stopTimer(w)

resumeGame(w) ==
  IF w.lsGameState = <<>> THEN w
  ELSE IF throwsAtBoard(w.lsGameState[1]) THEN w
  ELSE IF throwsAtHistory(w.lsGameState[1][2])
       THEN resumeFields(w, w.lsGameState[1][2])
  ELSE resumeShow(hideMessage(updateScoreDisplay(
         resumeHistory(resumeFields(w, w.lsGameState[1][2]), w.lsGameState[1][2]))))

\* homeBtn click
homeClick(w) ==
  LET w1 == saveGameState(w)
      w2 == IF w1.isTimedGame THEN stopTimer(w1) ELSE w1
  IN [w2 EXCEPT !.screen = "home"]

\* exitBtn click (the window stays open when the browser refuses to close it)
exitClick(w) == clearGameState(w)

\* a variant of keepPlayingClick that does not look at timerInterval
keepPlayingClickUnguarded(w) ==
  LET w1 == hideMessage(w)
  IN IF w1.isTimedGame THEN setInterval(w1, "keep") ELSE w1

\* keepPlayingButton click
keepPlayingClick(w) ==
  LET w1 == hideMessage(w)
  IN IF w1.isTimedGame /\ w1.timerInterval = "null"
     THEN setInterval(w1, "keep")
     ELSE w1

\* ------------------------------------------------------------------------
\* The state machine of the page (Spec)
\* ------------------------------------------------------------------------
\* a session saved by an earlier page, two undos spent: SeedFirst moved
\* left (512 + 512) gave SeedSecond, that moved up gave SeedBefore, that
\* moved down gave SeedBoard, a full board whose only equal neighbours are
\* the two 1024 tiles
SeedFirst ==
  << <<512, 512, 1024, 8>>,
     <<2, 4, 2, 8>>,
     <<4, 2, 4, 2>>,
     <<2, 4, null, null>> >>

SeedSecond ==
  << <<1024, 1024, 8, null>>,
     <<2, 4, 2, 8>>,
     <<4, 2, 4, 2>>,
     <<2, 4, null, 4>> >>

SeedBefore ==
  << <<1024, 1024, 8, 8>>,
     <<2, 4, 2, 2>>,
     <<4, 2, 4, 4>>,
     <<2, 4, 2, null>> >>

SeedBoard ==
  << <<1024, 1024, 8, 4>>,
     <<2, 4, 2, 8>>,
     <<4, 2, 4, 2>>,
     <<2, 4, 2, 4>> >>

seedSnapshot(b, sc) ==
  [board |-> b, score |-> sc, timeRemaining |-> jsNull, isTimedGame |-> FALSE]

SeedWorld ==
  [loadedPage(<<>>, <<18464>>) EXCEPT
     !.board = SeedBoard, !.score = 18464,
     !.historyStack = <<seedSnapshot(SeedFirst, 17440),
                        seedSnapshot(SeedSecond, 18464),
                        seedSnapshot(SeedBefore, 18464)>>,
     !.undosRemaining = 1]

\* localStorage as a page load can find it: <<gameState, bestScore>>
InitialStorage ==
  { <<(<<>>), (<<>>)>>,
    <<(<<stringifyState(SeedWorld)>>), (<<SeedWorld.score>>)>> }

\* hundredths of a minute typed into the custom time input
CustomMinutes == {1, 4}

\* swipes: dx, dy
Swipes == { <<-30, 5>>, <<5, 30>>, <<10, 10>> }

NoOp == [op |-> "load", ok |-> TRUE, can |-> TRUE]

NoStreak == [pre |-> <<>>, undone |-> 0]

NoCount == [moves |-> 0, ticks |-> 0, starts |-> 0, loads |-> 0, leaves |-> 0]

\* the handler leaves the world w behind
Becomes(w) ==
  /\ board' = w.board
  /\ score' = w.score
  /\ bestScore' = w.bestScore
  /\ won' = w.won
  /\ historyStack' = w.historyStack
  /\ undosRemaining' = w.undosRemaining
  /\ isTimedGame' = w.isTimedGame
  /\ timeRemaining' = w.timeRemaining
  /\ timerInterval' = w.timerInterval
  /\ intervals' = w.intervals
  /\ screen' = w.screen
  /\ messageDisplay' = w.messageDisplay
  /\ messageText' = w.messageText
  /\ keepPlayingShown' = w.keepPlayingShown
  /\ lsGameState' = w.lsGameState
  /\ lsBestScore' = w.lsBestScore
  /\ notes' = w.notes

Init ==
  /\ \E st \in InitialStorage :
       LET w == loadedPage(st[1], st[2])
       IN /\ board = w.board
          /\ score = w.score
          /\ bestScore = w.bestScore
          /\ won = w.won
          /\ historyStack = w.historyStack
          /\ undosRemaining = w.undosRemaining
          /\ isTimedGame = w.isTimedGame
          /\ timeRemaining = w.timeRemaining
          /\ timerInterval = w.timerInterval
          /\ intervals = w.intervals
          /\ screen = w.screen
          /\ messageDisplay = w.messageDisplay
          /\ messageText = w.messageText
          /\ keepPlayingShown = w.keepPlayingShown
          /\ lsGameState = w.lsGameState
          /\ lsBestScore = w.lsBestScore
          /\ notes = w.notes
  /\ array = <<>>
  /\ lineRes = <<>>
  /\ lastOp = NoOp
  /\ streak = NoStreak
  /\ count = NoCount

\* the k-th line of the board, read from the side the tiles travel to
lineTowards(key, b, k) ==
  CASE key = "ArrowLeft"  -> b[k]
    [] key = "ArrowRight" -> reverse(b[k])
    [] key = "ArrowUp"    -> column(b, k)
    [] key = "ArrowDown"  -> reverse(column(b, k))

\* a tile of the line has an empty cell ahead of it
hasGap(l) == \E i \in 1..Len(l) : \E j \in 1..Len(l) : i < j /\ l[i] = null /\ l[j] # null

\* two equal tiles of the line have only empty cells between them
hasPair(l) ==
  \E i \in 1..Len(l) : \E j \in 1..Len(l) :
    /\ i < j
    /\ l[i] # null
    /\ l[i] = l[j]
    /\ \A k \in (i + 1)..(j - 1) : l[k] = null

\* some cell of the board would move or merge under the direction
wouldMove(key, b) ==
  /\ key \in Keys
  /\ b # <<>>
  /\ \E k \in Rows : hasGap(lineTowards(key, b, k)) \/ hasPair(lineTowards(key, b, k))

\* the direction a swipe stands for ("" when it is too short)
swipeKey(dx, dy) ==
  IF ~(max(abs(dx), abs(dy)) > 20) THEN ""
  ELSE IF abs(dx) > abs(dy) THEN (IF dx > 0 THEN "ArrowRight" ELSE "ArrowLeft")
  ELSE (IF dy > 0 THEN "ArrowDown" ELSE "ArrowUp")

\* the history variables after a key or a swipe; limit bounds the
\* successful moves of the run, track keeps the streak of successful moves
AfterInput(w, w2, key, limit, track) ==
  LET moved == w2.moved
  IN /\ moved => count.moves < limit
     /\ Becomes(w2)
     /\ lastOp' = [op  |-> IF key \in Keys THEN "move" ELSE "key",
                   ok  |-> moved,
                   can |-> wouldMove(key, w.board)]
     /\ streak' = IF moved /\ track
                  THEN [pre |-> IF streak.undone = 0
                                THEN Append(streak.pre, [board |-> w.board, score |-> w.score])
                                ELSE <<[board |-> w.board, score |-> w.score]>>,
                        undone |-> 0]
                  ELSE NoStreak
     /\ count' = IF moved THEN [count EXCEPT !.moves = @ + 1] ELSE count
     /\ UNCHANGED <<array, lineRes>>

\* the history variables after any other handler
AfterOther(w2, op, ok) ==
  /\ Becomes(w2)
  /\ lastOp' = [op |-> op, ok |-> ok, can |-> ok]
  /\ streak' = NoStreak
  /\ UNCHANGED <<array, lineRes>>

KeyDownUpTo(limit, track) ==
  \E key \in Keys \cup {"Enter"} : \E rnd \in Randoms :
    \E w \in {World} : \E w2 \in {handleKey(w, key, rnd)} :
      AfterInput(w, w2, key, limit, track)

TouchEndUpTo(limit, track) ==
  \E sw \in Swipes : \E rnd \in Randoms :
    \E w \in {World} : \E w2 \in {handleTouchEnd(w, sw[1], sw[2], rnd)} :
      AfterInput(w, w2, swipeKey(sw[1], sw[2]), limit, track)

\* window keydown
KeyDown == KeyDownUpTo(MaxMoves, FALSE)

\* window touchend
TouchEnd == TouchEndUpTo(MaxMoves, FALSE)

\* undoBtn click
Undo ==
  /\ screen = "game"
  /\ \E w2 \in {undoMove(World)} :
       LET ok == Len(w2.historyStack) < Len(historyStack)
       IN /\ Becomes(w2)
          /\ lastOp' = [op |-> "undo", ok |-> ok, can |-> ok]
          /\ streak' = IF ok /\ streak.pre # <<>>
                       THEN [streak EXCEPT !.undone = @ + 1]
                       ELSE NoStreak
          /\ UNCHANGED <<array, lineRes, count>>

\* a setInterval callback runs
Tick ==
  \E kind \in {"main", "keep"} :
    /\ intervals[kind] > 0
    /\ count.ticks < MaxTicks
    /\ \E w2 \in {IF kind = "main" THEN timerCallback(World)
                  ELSE keepPlayingCallback(World)} :
         AfterOther(w2, "tick", TRUE)
    /\ count' = [count EXCEPT !.ticks = @ + 1]

Started(w2) ==
  /\ count.starts < MaxStarts
  /\ AfterOther(w2, "start", TRUE)
  /\ count' = [count EXCEPT !.starts = @ + 1]

\* newGameBtn click
NewGame ==
  /\ screen = "home"
  /\ \E rnd1 \in Randoms : \E rnd2 \in Randoms :
       \E w2 \in {startGame(World, FALSE, jsUndefined, rnd1, rnd2)} : Started(w2)

\* timedGameBtn click
TimedGame ==
  /\ screen = "home"
  /\ \E rnd1 \in Randoms : \E rnd2 \in Randoms :
       \E w2 \in {startGame(World, TRUE, jsUndefined, rnd1, rnd2)} : Started(w2)

\* customTimeBtn click
CustomTime ==
  /\ screen = "home"
  /\ \E mins \in CustomMinutes : \E rnd1 \in Randoms : \E rnd2 \in Randoms :
       /\ mins > 0
       /\ \E w2 \in {startGame(World, TRUE, jsNumber(mins), rnd1, rnd2)} : Started(w2)

\* retryButton click
Retry ==
  /\ screen = "game"
  /\ messageDisplay = "flex"
  /\ \E rnd1 \in Randoms : \E rnd2 \in Randoms :
       \E w2 \in {startGame(World, isTimedGame, jsUndefined, rnd1, rnd2)} : Started(w2)

\* resumeGameBtn click
Resume ==
  /\ screen = "home"
  /\ \E w2 \in {resumeGame(World)} :
       AfterOther(w2, "resume", lsGameState # <<>>)
  /\ UNCHANGED count

\* homeBtn click
Home ==
  /\ screen = "game"
  /\ count.leaves < MaxLeaves
  /\ \E w2 \in {homeClick(World)} : AfterOther(w2, "home", TRUE)
  /\ count' = [count EXCEPT !.leaves = @ + 1]

\* exitBtn click
Exit ==
  /\ screen = "home"
  /\ count.leaves < MaxLeaves
  /\ \E w2 \in {exitClick(World)} : AfterOther(w2, "exit", TRUE)
  /\ count' = [count EXCEPT !.leaves = @ + 1]

\* keepPlayingButton click
KeepPlaying ==
  /\ screen = "game"
  /\ messageDisplay = "flex"
  /\ keepPlayingShown
  /\ \E w2 \in {keepPlayingClick(World)} : AfterOther(w2, "keep", TRUE)
  /\ UNCHANGED count

\* the page is closed and opened again: the script starts over on the same
\* localStorage; the notifications of the stored session stay counted
Reload ==
  /\ count.loads < MaxLoads
  /\ \E w2 \in {[loadedPage(lsGameState, lsBestScore) EXCEPT !.notes = notes]} :
       AfterOther(w2, "load", TRUE)
  /\ count' = [count EXCEPT !.loads = @ + 1]

Next ==
  \/ KeyDown
  \/ TouchEnd
  \/ Undo
  \/ Tick
  \/ NewGame
  \/ TimedGame
  \/ CustomTime
  \/ Retry
  \/ Resume
  \/ Home
  \/ Exit
  \/ KeepPlaying
  \/ Reload

Spec == Init /\ [][Next]_vars

\* ------------------------------------------------------------------------
\* Play (SpecPlay): the page again, with only the handlers of a stretch of
\* play in which no timer callback runs: new game, resume, direction
\* inputs and undo; the streak of successful moves is kept
\* ------------------------------------------------------------------------
PlayKey == KeyDownUpTo(MaxPlayMoves, TRUE)

PlayTouch == TouchEndUpTo(MaxPlayMoves, TRUE)

NextPlay ==
  \/ NewGame
  \/ TimedGame
  \/ Resume
  \/ PlayKey
  \/ PlayTouch
  \/ Undo

SpecPlay == Init /\ [][NextPlay]_vars

\* ------------------------------------------------------------------------
\* Storage that refuses writes (SpecQuota): a stretch of play in which
\* localStorage.setItem may throw during any direction key and any click on
\* the home button (the quota is used up, or the browser refuses storage);
\* lineRes keeps the key, the random draws and whether the writes of the
\* key's handler threw
\* ------------------------------------------------------------------------
QuotaKey ==
  \E key \in Keys : \E rnd \in Randoms : \E fails \in BOOLEAN :
    \E w \in {[World EXCEPT !.setItemThrows = fails]} :
      \E w2 \in {handleKey(w, key, rnd)} :
        /\ w2.moved => count.moves < MaxMoves
        /\ Becomes(w2)
        /\ lastOp' = [op |-> "move", ok |-> w2.moved, can |-> wouldMove(key, w.board)]
        /\ lineRes' = <<[key |-> key, rnd |-> rnd, fails |-> fails]>>
        /\ streak' = NoStreak
        /\ count' = IF w2.moved THEN [count EXCEPT !.moves = @ + 1] ELSE count
        /\ array' = array

\* homeBtn click, localStorage.setItem throwing or not
QuotaHome ==
  /\ screen = "game"
  /\ count.leaves < MaxLeaves
  /\ \E fails \in BOOLEAN :
       \E w2 \in {homeClick([World EXCEPT !.setItemThrows = fails])} :
         /\ AfterOther(w2, "home", TRUE)
         /\ count' = [count EXCEPT !.leaves = @ + 1]

NextQuota ==
  \/ NewGame
  \/ Resume
  \/ QuotaKey
  \/ Undo
  \/ QuotaHome

SpecQuota == Init /\ [][NextQuota]_vars

\* ------------------------------------------------------------------------
\* Foreign records (SpecLoad): the page opens on a localStorage whose
\* 'gameState' was not written by this script: the stored session with
\* any of board, score, undosRemaining, timeRemaining and historyStack
\* replaced by a value of another type, or the text null
\* ------------------------------------------------------------------------
StoredBoards == { boardToJSON(SeedBoard), jsNull, jsArray(<<jsNumber(2)>>) }

StoredNumbers(n) == { jsNumber(n), jsString("x") }

StoredHistories ==
  { stringifyState(SeedWorld)[2].historyStack, jsNull, jsArray(<<jsNull>>) }

StoredRecords ==
  { jsObject([stringifyState(SeedWorld)[2] EXCEPT
                !.board = b, !.score = sc, !.undosRemaining = u,
                !.timeRemaining = t, !.historyStack = h]) :
      b \in StoredBoards, sc \in StoredNumbers(SeedWorld.score),
      u \in StoredNumbers(SeedWorld.undosRemaining),
      t \in StoredNumbers(SeedWorld.timeRemaining), h \in StoredHistories }
  \cup {jsNull}

InitLoad ==
  /\ \E saved \in StoredRecords : \E w \in {loadedPage(<<saved>>, <<>>)} :
       /\ board = w.board
       /\ score = w.score
       /\ bestScore = w.bestScore
       /\ won = w.won
       /\ historyStack = w.historyStack
       /\ undosRemaining = w.undosRemaining
       /\ isTimedGame = w.isTimedGame
       /\ timeRemaining = w.timeRemaining
       /\ timerInterval = w.timerInterval
       /\ intervals = w.intervals
       /\ screen = w.screen
       /\ messageDisplay = w.messageDisplay
       /\ messageText = w.messageText
       /\ keepPlayingShown = w.keepPlayingShown
       /\ lsGameState = w.lsGameState
       /\ lsBestScore = w.lsBestScore
       /\ notes = w.notes
  /\ array = <<>>
  /\ lineRes = <<>>
  /\ lastOp = NoOp
  /\ streak = NoStreak
  /\ count = NoCount

NextLoad ==
  \/ Resume
  \/ NewGame
  \/ PlayKey
  \/ Undo
  \/ Home

SpecLoad == InitLoad /\ [][NextLoad]_vars

\* ------------------------------------------------------------------------
\* Random draws (SpecDraw): the page with Math.random() drawing the first
\* or the last empty cell and a 2 or a 4 at every spawn, and a second
\* session started after the first; lineRes keeps the key and the draws of
\* the last direction key when it moved the board
\* ------------------------------------------------------------------------
Draws == [cell : {0, 9}, tenths : {0, 9}]

\* the draws of the two spawns of initGame: the first tile goes to the
\* first cell
StartDraws == { d \in Draws \X Draws : d[1].cell = 0 }

\* startGame(false), startGame(true), startGame(true, minutes)
DrawModes ==
  { <<FALSE, jsUndefined>>, <<TRUE, jsUndefined>> }
    \cup { <<TRUE, jsNumber(mins)>> : mins \in {m \in CustomMinutes : (m * 60) \div 100 > 0} }

DrawStarted(w2) ==
  /\ count.starts < MaxDrawStarts
  /\ Becomes(w2)
  /\ lastOp' = [op |-> "start", ok |-> TRUE, can |-> TRUE]
  /\ lineRes' = <<>>
  /\ streak' = NoStreak
  /\ count' = [count EXCEPT !.starts = @ + 1]
  /\ array' = array

\* newGameBtn, timedGameBtn, customTimeBtn click
DrawNewGame ==
  /\ screen = "home"
  /\ \E mode \in DrawModes : \E d \in StartDraws :
       \E w2 \in {startGame(World, mode[1], mode[2], d[1], d[2])} : DrawStarted(w2)

\* retryButton click
DrawRetry ==
  /\ screen = "game"
  /\ messageDisplay = "flex"
  /\ \E d \in StartDraws :
       \E w2 \in {startGame(World, isTimedGame, jsUndefined, d[1], d[2])} : DrawStarted(w2)

\* window keydown
DrawKey ==
  \E key \in Keys : \E rnd \in Draws :
    \E w \in {World} : \E w2 \in {handleKey(w, key, rnd)} :
      /\ w2.moved => count.moves < MaxDrawMoves
      /\ Becomes(w2)
      /\ lastOp' = [op |-> "move", ok |-> w2.moved, can |-> wouldMove(key, w.board)]
      /\ lineRes' = IF w2.moved THEN <<[key |-> key, rnd |-> rnd]>> ELSE <<>>
      /\ streak' = NoStreak
      /\ count' = IF w2.moved THEN [count EXCEPT !.moves = @ + 1] ELSE count
      /\ array' = array

NextDraw ==
  \/ DrawNewGame
  \/ DrawRetry
  \/ DrawKey
  \/ Undo
  \/ Home
  \/ Resume

SpecDraw == Init /\ [][NextDraw]_vars

\* ------------------------------------------------------------------------
\* A timed session near its win (SpecTimer): the page opens on the record
\* of a timed session, saved with SeedBoard, SeedTime seconds left and
\* snapshots taken at SeedTime + 3, + 2 and + 1 seconds; the spawns draw as
\* in SpecDraw, so that the winning move can leave the board open
\* ------------------------------------------------------------------------
SeedTime == 2

timedSnapshot(b, sc, t) ==
  [board |-> b, score |-> sc, timeRemaining |-> jsNumber(t), isTimedGame |-> TRUE]

TimedSeedWorld ==
  [SeedWorld EXCEPT
     !.isTimedGame = TRUE, !.timeRemaining = SeedTime,
     !.historyStack = <<timedSnapshot(SeedFirst, 17440, SeedTime + 3),
                        timedSnapshot(SeedSecond, 18464, SeedTime + 2),
                        timedSnapshot(SeedBefore, 18464, SeedTime + 1)>>]

InitTimer ==
  /\ \E w \in {loadedPage(<<stringifyState(TimedSeedWorld)>>, <<TimedSeedWorld.score>>)} :
       /\ board = w.board
       /\ score = w.score
       /\ bestScore = w.bestScore
       /\ won = w.won
       /\ historyStack = w.historyStack
       /\ undosRemaining = w.undosRemaining
       /\ isTimedGame = w.isTimedGame
       /\ timeRemaining = w.timeRemaining
       /\ timerInterval = w.timerInterval
       /\ intervals = w.intervals
       /\ screen = w.screen
       /\ messageDisplay = w.messageDisplay
       /\ messageText = w.messageText
       /\ keepPlayingShown = w.keepPlayingShown
       /\ lsGameState = w.lsGameState
       /\ lsBestScore = w.lsBestScore
       /\ notes = w.notes
  /\ array = <<>>
  /\ lineRes = <<>>
  /\ lastOp = NoOp
  /\ streak = NoStreak
  /\ count = NoCount

NextTimer ==
  \/ Resume
  \/ DrawKey
  \/ Undo
  \/ Tick
  \/ KeepPlaying
  \/ Home
  \/ DrawRetry
  \/ TimedGame

SpecTimer == InitTimer /\ [][NextTimer]_vars

\* ------------------------------------------------------------------------
\* Lines (SpecLine): slideAndCombine applied to every line of four cells
\* that are empty or a tile up to 2^MaxExp, with won either way; the
\* result can be resolved again
\* ------------------------------------------------------------------------
LineCells == {null} \cup {2 ^ k : k \in 1..MaxExp}

\* the page at rest on the game screen, no session data
Idle ==
  /\ bestScore = 0
  /\ historyStack = <<>>
  /\ undosRemaining = InitialUndos
  /\ isTimedGame = FALSE
  /\ timeRemaining = DefaultTime
  /\ timerInterval = "null"
  /\ intervals = NoIntervals
  /\ screen = "game"
  /\ messageDisplay = "none"
  /\ messageText = ""
  /\ keepPlayingShown = FALSE
  /\ lsGameState = <<>>
  /\ lsBestScore = <<>>
  /\ notes = NoNotes
  /\ lastOp = NoOp
  /\ streak = NoStreak
  /\ count = NoCount

Rest == <<bestScore, historyStack, undosRemaining, isTimedGame, timeRemaining,
          timerInterval, intervals, screen, messageDisplay, messageText,
          keepPlayingShown, lsGameState, lsBestScore, streak, count>>

InitLine ==
  /\ array \in [1..SIZE -> LineCells]
  /\ lineRes = <<>>
  /\ won \in BOOLEAN
  /\ score = 0
  /\ board = <<>>
  /\ Idle

\* newArr = slideAndCombine(array); lineRes keeps the result and the score
\* before it
ResolveLine ==
  /\ lineRes = <<>>
  /\ \E res \in {slideAndCombine(array, score, won)} :
       /\ lineRes' = <<res, score>>
       /\ score' = res.score
       /\ won' = res.won
       /\ notes' = [notes EXCEPT !.win = @ + res.wins]
  /\ lastOp' = [op |-> "line", ok |-> TRUE, can |-> TRUE]
  /\ UNCHANGED <<array, board, Rest>>

\* the result becomes the line of a second application
AgainLine ==
  /\ lineRes # <<>>
  /\ lastOp.op = "line"
  /\ array' = lineRes[1].arr
  /\ lineRes' = <<>>
  /\ lastOp' = [op |-> "again", ok |-> TRUE, can |-> TRUE]
  /\ UNCHANGED <<score, won, notes, board, Rest>>

NextLine == ResolveLine \/ AgainLine

SpecLine == InitLine /\ [][NextLine]_vars

\* ------------------------------------------------------------------------
\* Boards (SpecBoard): the four moves and isGameOver on boards whose first
\* FreeCells cells (row by row) are empty, 2 or 4 and whose other cells are
\* all empty or the 2/4 checkerboard; no tile is spawned
\* ------------------------------------------------------------------------
checker(i) == IF (cellRow(i) + cellCol(i)) % 2 = 0 THEN 2 ELSE 4

RECURSIVE cellsFrom(_, _, _)
cellsFrom(free, full, i) ==
  IF i > SIZE * SIZE THEN <<>>
  ELSE <<(IF i <= FreeCells THEN free[i] ELSE IF full THEN checker(i) ELSE null)>>
       \o cellsFrom(free, full, i + 1)

\* the board of 16 cells listed row by row
boardOf(cells) ==
  << SubSeq(cells, 1, 4), SubSeq(cells, 5, 8), SubSeq(cells, 9, 12), SubSeq(cells, 13, 16) >>

Boards ==
  { boardOf(cellsFrom(free, full, 1)) :
      free \in [1..FreeCells -> {null, 2, 4}], full \in BOOLEAN }

InitBoard ==
  /\ board \in Boards
  /\ array = <<>>
  /\ lineRes = <<>>
  /\ won = FALSE
  /\ score = 0
  /\ Idle

\* one of the four moves; a second one repeats the direction of the first.
\* lineRes keeps, per move, the board before it and what the move reports
MoveBoard ==
  /\ lastOp.op # "judge"
  /\ Len(lineRes) < 2
  /\ \E key \in Keys :
       /\ lineRes # <<>> => key = lastOp.op
       /\ \E m \in {moveByKey(key, board, score, won)} :
            /\ board' = m.board
            /\ score' = m.score
            /\ won' = m.won
            /\ notes' = [notes EXCEPT !.win = @ + m.wins]
            /\ lineRes' = Append(lineRes, [before  |-> board,
                                           changed |-> m.changed,
                                           merges  |-> m.merges,
                                           gain    |-> m.score - score])
            /\ lastOp' = [op |-> key, ok |-> m.changed, can |-> wouldMove(key, board)]
  /\ UNCHANGED <<array, Rest>>

\* isGameOver() and the four moves tried on the same board
JudgeBoard ==
  /\ lastOp.op = "load"
  /\ lineRes' = <<[over  |-> isGameOver(board),
                   legal |-> {key \in Keys : moveByKey(key, board, score, won).changed}]>>
  /\ lastOp' = [op |-> "judge", ok |-> TRUE, can |-> TRUE]
  /\ UNCHANGED <<array, board, score, won, notes, Rest>>

NextBoard == MoveBoard \/ JudgeBoard

SpecBoard == InitBoard /\ [][NextBoard]_vars

\* ------------------------------------------------------------------------
\* Properties of slideAndCombine (SpecLine)
\* ------------------------------------------------------------------------
\* C1: one application of slideAndCombine never merges a tile that a merge
\* of the same application produced: every tile of the result holds at most
\* two tiles of the input line; so [2,2,2,2] gives [4,4,_,_] with a score
\* delta of 8 and [2,2,4,_] gives [4,4,_,_] (score delta 4)
C1_NoDoubleMerge ==
  lastOp.op = "line" =>
    LET res == lineRes[1]
        gain == res.score - lineRes[2]
    IN /\ \A i \in 1..SIZE : res.parts[i] <= 2
       /\ \A i \in 1..SIZE : res.parts[i] = 0 <=> res.arr[i] = null
       /\ array = <<2, 2, 2, 2>> => res.arr = <<4, 4, null, null>> /\ gain = 8
       /\ array = <<2, 2, 4, null>> => res.arr = <<4, 4, null, null>> /\ gain = 4

\* C1 witness: [2,2,2,2] has been resolved into [4,4,_,_] by two merges
C1_Witness ==
  /\ lastOp.op = "line"
  /\ array = <<2, 2, 2, 2>>
  /\ lineRes[1].arr = <<4, 4, null, null>>
  /\ lineRes[1].merges = 2

\* ------------------------------------------------------------------------
\* Properties of the moves and of isGameOver (SpecBoard)
\* ------------------------------------------------------------------------
\* two equal tiles sit next to each other along the direction
pairAlong(key, b) ==
  \E k \in Rows : \E i \in 1..(SIZE - 1) :
    LET l == lineTowards(key, b, k)
    IN l[i] # null /\ l[i] = l[i + 1]

\* C2 as stated: the same direction applied a second time, no tile spawned
\* in between, changes no cell and adds nothing to the score
C2_Idempotent ==
  Len(lineRes) = 2 /\ lastOp.op \in Keys =>
    /\ ~lineRes[2].changed
    /\ board = lineRes[2].before
    /\ lineRes[2].gain = 0

\* C2 amended: the second application changes the board exactly when the
\* first one left two equal tiles next to each other along the direction,
\* which only a merge of the first application can do; otherwise (always
\* after a first application without a merge) it changes no cell and adds
\* nothing to the score
C2_IdempotentUnlessMerged ==
  Len(lineRes) = 2 /\ lastOp.op \in Keys =>
    /\ lineRes[2].changed <=> pairAlong(lastOp.op, lineRes[2].before)
    /\ lineRes[2].changed => lineRes[1].merges > 0 /\ lineRes[2].gain > 0
    /\ ~lineRes[2].changed => board = lineRes[2].before /\ lineRes[2].gain = 0

\* C2 witness: a first application that moved tiles without merging, and a
\* second one that changed nothing
C2_Witness ==
  /\ Len(lineRes) = 2
  /\ lastOp.op \in Keys
  /\ lineRes[1].changed
  /\ lineRes[1].merges = 0
  /\ ~lineRes[2].changed
  /\ board = lineRes[2].before

\* every cell is occupied
isFull(b) == \A r \in Rows : \A c \in Rows : b[r][c] # null

\* two horizontally or vertically adjacent cells are equal
hasEqualNeighbours(b) ==
  \/ \E r \in Rows : \E c \in 1..(SIZE - 1) : b[r][c] = b[r][c + 1]
  \/ \E r \in 1..(SIZE - 1) : \E c \in Rows : b[r][c] = b[r + 1][c]

\* C8 as stated: isGameOver is true exactly on the full boards without equal
\* neighbours, and exactly on the boards on which no direction changes
\* anything
C8_GameOverIffNoMove ==
  lastOp.op = "judge" =>
    /\ lineRes[1].over <=> isFull(board) /\ ~hasEqualNeighbours(board)
    /\ lineRes[1].over <=> lineRes[1].legal = {}

\* C8 amended: isGameOver is true exactly on the full boards without equal
\* neighbours, hence false on every board with an empty cell; on a board
\* with at least one tile it is true exactly when no direction changes
\* anything (on the board without any tile no direction changes anything,
\* and isGameOver is false)
C8_GameOverIffNoMoveWithTiles ==
  lastOp.op = "judge" =>
    /\ lineRes[1].over <=> isFull(board) /\ ~hasEqualNeighbours(board)
    /\ ~isFull(board) => ~lineRes[1].over
    /\ board # createEmptyBoard => (lineRes[1].over <=> lineRes[1].legal = {})
    /\ board = createEmptyBoard => ~lineRes[1].over /\ lineRes[1].legal = {}

\* C8 witness: isGameOver has answered true on the 2/4 checkerboard
C8_Witness ==
  /\ lastOp.op = "judge"
  /\ lineRes[1].over
  /\ lineRes[1].legal = {}
  /\ board[1] = <<2, 4, 2, 4>>

\* ------------------------------------------------------------------------
\* Properties of the page (Spec, SpecPlay)
\* ------------------------------------------------------------------------
\* C3: a direction input under which no cell would move or merge reports
\* moved = false and leaves board, score, bestScore, won, the history,
\* undosRemaining and the persisted record as they were (no tile spawned)
C3_NoOpMove ==
  [][ lastOp'.op = "move" /\ ~lastOp'.can =>
        /\ ~lastOp'.ok
        /\ UNCHANGED <<board, score, bestScore, won, historyStack, undosRemaining,
                       lsGameState, lsBestScore>> ]_vars

\* C3 witness: on a board in play, with no message shown, a direction input
\* under which no cell would move or merge has been handled
C3_Witness ==
  /\ lastOp.op = "move"
  /\ ~lastOp.can
  /\ ~lastOp.ok
  /\ screen = "game"
  /\ messageDisplay = "none"
  /\ board # <<>>
  /\ ~isGameOver(board)

min(x, y) == IF x < y THEN x ELSE y

\* C4: the history never holds more than 3 snapshots; after consecutive
\* successful moves its newest snapshots are the states before the latest
\* moves, newest last (the oldest is the one evicted); successive undos then
\* restore the board and score before the latest move, the one before it,
\* and so on; after 4 moves and 3 undos the history is empty, so the state
\* before the 1st move cannot be restored
C4_HistoryBounded ==
  LET k == Len(streak.pre)
      n == Len(historyStack)
  IN /\ n <= HistoryLimit
     /\ streak.undone = 0 =>
          /\ n >= min(k, HistoryLimit)
          /\ \A i \in 1..min(k, HistoryLimit) :
               /\ historyStack[n - i + 1].board = streak.pre[k - i + 1].board
               /\ historyStack[n - i + 1].score = streak.pre[k - i + 1].score
     /\ streak.undone \in 1..k =>
          /\ board = streak.pre[k - streak.undone + 1].board
          /\ score = streak.pre[k - streak.undone + 1].score
     /\ k = HistoryLimit + 1 /\ streak.undone = HistoryLimit => historyStack = <<>>

\* C4 witness: 4 consecutive successful moves and then 3 undos, the last of
\* which has restored the state before the 2nd move
C4_Witness ==
  /\ Len(streak.pre) = 4
  /\ streak.undone = 3
  /\ board = streak.pre[2].board
  /\ board # streak.pre[1].board
  /\ historyStack = <<>>

\* C5: undosRemaining stays within 0..3, every successful undo takes
\* exactly 1 off it, and only the start of a session (or the page load that
\* declares it) ever raises it
C5_UndosBounded ==
  [][ /\ undosRemaining' \in 0..InitialUndos
      /\ lastOp'.op = "undo" /\ lastOp'.ok => undosRemaining' = undosRemaining - 1
      /\ lastOp'.op \notin {"start", "load"} => undosRemaining' <= undosRemaining ]_vars

\* C5 witness: a successful undo has taken undosRemaining to 0
C5_Witness ==
  /\ lastOp.op = "undo"
  /\ lastOp.ok
  /\ undosRemaining = 0

\* the session a fresh page resumes from the persisted record
resumed == resumeGame(loadedPage(lsGameState, lsBestScore))

\* C6 as stated: right after a session is started, undosRemaining is 3 and
\* the history is empty, in memory and in the session resumed from the
\* record that the start persisted
C6_FreshSession ==
  lastOp.op = "start" =>
    /\ undosRemaining = InitialUndos
    /\ historyStack = <<>>
    /\ resumed.undosRemaining = InitialUndos
    /\ resumed.historyStack = <<>>

\* C7: after a successful move or a successful undo that does not end the
\* game, the persisted record exists and resuming it gives the session in
\* memory: board, score, won, timed flag, timeRemaining, history and
\* undosRemaining
C7_RoundTrip ==
  /\ lastOp.op \in {"move", "undo"}
  /\ lastOp.ok
  /\ lastOp.op = "move" => ~isGameOver(board)
  => /\ lsGameState # <<>>
     /\ resumed.board = board
     /\ resumed.score = score
     /\ resumed.won = won
     /\ resumed.isTimedGame = isTimedGame
     /\ resumed.timeRemaining = timeRemaining
     /\ resumed.historyStack = historyStack
     /\ resumed.undosRemaining = undosRemaining

\* C7 witness: a successful undo in a timed session that leaves a snapshot
\* in the history
C7_Witness ==
  /\ lastOp.op = "undo"
  /\ lastOp.ok
  /\ isTimedGame
  /\ historyStack # <<>>
  /\ undosRemaining < InitialUndos
  /\ resumed.historyStack = historyStack

\* C9: the win notification is emitted at most once in a session, and won,
\* once true, stays true under every step but the start of a session (or
\* the page load that declares it)
C9_WinOnce ==
  [][ /\ notes'.win <= 1
      /\ notes'.win > notes.win => won' /\ ~won
      /\ won /\ lastOp'.op \notin {"start", "load"} => won' ]_vars

\* C9 witness: after a win and an undo that restored the board before it,
\* 2048 has been merged a second time, and the notification count is still 1
C9_Witness ==
  /\ lastOp.op = "move"
  /\ lastOp.ok
  /\ count.moves = 2
  /\ board[1][1] = WinValue
  /\ undosRemaining = 0
  /\ won
  /\ notes.win = 1

\* C10 as stated: the time-expired notification is emitted at most once in
\* a session and not before timeRemaining is used up, and once it has been
\* emitted no countdown runs, whatever key, swipe, undo or keep-playing
\* click follows on the game screen
C10_ExpiredOnce ==
  /\ notes.timeUp <= 1
  /\ notes.timeUp >= 1 /\ lastOp.op = "tick" => timeRemaining <= 0
  /\ notes.timeUp >= 1 /\ lastOp.op \in {"tick", "move", "key", "undo", "keep"} =>
       intervals = NoIntervals

\* C11 as stated: in a timed session timeRemaining is never negative,
\* however the countdown was started (default, custom duration, resume,
\* restart by undo)
C11_TimeNonNegative == isTimedGame => timeRemaining >= 0

\* the session has ended: 'Game Over' or "Time's up! Game Over" was shown
\* since it was started
ended == notes.over + notes.timeUp >= 1

\* C12 as stated: once the session has ended, no key or swipe changes the
\* board, the score or the history until a new session is started, also
\* after leaving to the home screen and resuming
C12_EndedIsTerminal ==
  [][ ended /\ lastOp'.op \in {"move", "key"} =>
        UNCHANGED <<board, score, historyStack>> ]_vars

\* C13 as stated: from the game-over notification until a new session is
\* started, no session record exists in storage
C13_EndedNotResumable == ended => lsGameState = <<>>

\* C14 as stated: after the session has ended, a click on undo leaves
\* board, score, history, undosRemaining and timeRemaining unchanged, does
\* not restart the countdown and writes no session record
C14_NoUndoWhenEnded ==
  [][ ended /\ lastOp'.op = "undo" =>
        UNCHANGED <<board, score, historyStack, undosRemaining, timeRemaining,
                    timerInterval, intervals, lsGameState>> ]_vars

\* C15 as stated: no single step emits both the win notification and the
\* board-full game-over notification
C15_WinAndOverApart ==
  [][ ~(notes'.win > notes.win /\ notes'.over > notes.over) ]_vars

\* C16 as stated: a direction key that moves the board while the storage
\* writes of its handler fail leaves the session in memory and the
\* notifications exactly as the same key with working storage does:
\* snapshot committed, score and bestScore updated, one tile spawned,
\* game-over emitted when the board is terminal
C16_FailedWriteHarmless ==
  [][ lastOp'.op = "move" /\ lastOp'.ok /\ lineRes' # <<>> /\ lineRes'[1].fails =>
        \E good \in {handleKey(World, lineRes'[1].key, lineRes'[1].rnd)} :
          /\ board' = good.board
          /\ score' = good.score
          /\ bestScore' = good.bestScore
          /\ historyStack' = good.historyStack
          /\ notes' = good.notes
          /\ messageDisplay' = good.messageDisplay
          /\ messageText' = good.messageText ]_vars

\* C16, the part that holds: when only the write of the session record
\* fails (the move sets no new best score), the move completes as with
\* working storage
C16_FailedSaveHarmless ==
  [][ /\ lastOp'.op = "move" /\ lastOp'.ok /\ lineRes' # <<>> /\ lineRes'[1].fails
      /\ bestScore' = bestScore
      => \E good \in {handleKey(World, lineRes'[1].key, lineRes'[1].rnd)} :
           /\ board' = good.board
           /\ score' = good.score
           /\ historyStack' = good.historyStack
           /\ notes' = good.notes
           /\ messageDisplay' = good.messageDisplay
           /\ messageText' = good.messageText ]_vars

\* a stored board is an array of rows, a stored history an array of snapshots
isBoardJSON(v) == isArray(v) /\ \A r \in 1..Len(v[2]) : isArray(v[2][r])

isHistoryJSON(v) == isArray(v) /\ \A i \in 1..Len(v[2]) : v[2][i][1] = "object"

\* C17 as stated: a resume of a stored record completes whatever the types
\* of its fields, with board, score, undosRemaining, timeRemaining and
\* history taken from the record or replaced by their defaults (empty board,
\* 0, 3, 300, empty history); and a resume that does not complete leaves
\* the session in memory as it was
C17_LoadDefaultsOrNothing ==
  [][ lastOp'.op = "resume" /\ lsGameState # <<>> =>
        /\ lsGameState[1][1] = "object" =>
             \E state \in {lsGameState[1][2]} :
               /\ screen' = "game"
               /\ ~isBoardJSON(state.board) => board' = createEmptyBoard
               /\ score' = IF isNumber(state.score) THEN state.score[2] ELSE 0
               /\ undosRemaining' = IF isNumber(state.undosRemaining)
                                    THEN state.undosRemaining[2] ELSE InitialUndos
               /\ timeRemaining' = IF isNumber(state.timeRemaining)
                                   THEN state.timeRemaining[2] ELSE DefaultTime
               /\ ~isHistoryJSON(state.historyStack) => historyStack' = <<>>
        /\ screen' # "game" =>
             UNCHANGED <<board, score, bestScore, won, historyStack, undosRemaining,
                         isTimedGame, timeRemaining>> ]_vars

\* C17, the second half alone: a resume that does not complete leaves the
\* session in memory as it was
C17_FailedLoadKeepsSession ==
  [][ lastOp'.op = "resume" /\ lsGameState # <<>> /\ screen' # "game" =>
        UNCHANGED <<board, score, bestScore, won, historyStack, undosRemaining,
                    isTimedGame, timeRemaining>> ]_vars

\* C18: an undo requested when the history is empty or undosRemaining = 0
\* changes nothing: board, score, history, undosRemaining, timeRemaining,
\* the countdown (timerInterval and the scheduled callbacks) and the
\* stored record stay as they were
C18_EmptyUndoIsNoOp ==
  [][ lastOp'.op = "undo" /\ (Len(historyStack) = 0 \/ undosRemaining = 0) =>
        UNCHANGED <<board, score, historyStack, undosRemaining, timeRemaining,
                    timerInterval, intervals, lsGameState>> ]_vars

\* an undo was requested with snapshots left and no undo left
C18_Witness ==
  /\ lastOp.op = "undo"
  /\ ~lastOp.ok
  /\ undosRemaining = 0
  /\ Len(historyStack) > 0

\* the number of tiles of value v on the board, and the sum of all tiles
tileCount(b, v) == Cardinality({rc \in Rows \X Rows : b[rc[1]][rc[2]] = v})

RECURSIVE tileSumFrom(_, _)
tileSumFrom(b, i) ==
  IF i > SIZE * SIZE THEN 0
  ELSE b[cellRow(i)][cellCol(i)] + tileSumFrom(b, i + 1)

tileSum(b) == tileSumFrom(b, 1)

\* the sum of the values of the tiles that merges created between the
\* board b0 and the board b1 one move and one spawn later, counted from the
\* tiles alone: the spawn adds a tile of value tileSum(b1) - tileSum(b0),
\* and n merges into 2^k take 2n tiles 2^(k-1) and give n tiles 2^k; carry
\* is the number of merges that created 2^(k-1)
RECURSIVE mergeGainFrom(_, _, _, _, _)
mergeGainStep(b0, b1, spawned, k, n) ==
  (2 ^ k) * n + mergeGainFrom(b0, b1, spawned, k + 1, n)

mergeGainFrom(b0, b1, spawned, k, carry) ==
  IF k > MaxExp + 1 THEN 0
  ELSE mergeGainStep(b0, b1, spawned, k,
         (tileCount(b0, 2 ^ (k - 1)) - tileCount(b1, 2 ^ (k - 1))
            + (IF spawned = 2 ^ (k - 1) THEN 1 ELSE 0) + carry) \div 2)

mergeGain(b0, b1) == mergeGainFrom(b0, b1, tileSum(b1) - tileSum(b0), 2, 0)

\* C19: within a session, a successful move adds to score exactly the sum
\* of the values of the tiles its merges created (nothing for a pure
\* slide), a successful undo sets score to the score of the snapshot it
\* pops, and no other operation on the session lowers score (a new game, a
\* resume and a page load begin a session)
C19_ScoreIsMergeSum ==
  [][ /\ lastOp'.op = "move" /\ lastOp'.ok => score' = score + mergeGain(board, board')
      /\ lastOp'.op = "move" /\ ~lastOp'.ok => score' = score
      /\ lastOp'.op = "undo" /\ lastOp'.ok => score' = Last(historyStack).score
      /\ ~(lastOp'.op = "undo" /\ lastOp'.ok) /\ lastOp'.op \notin {"start", "resume", "load"}
           => score' >= score ]_vars

\* a successful move has merged tiles and score has grown by their sum
C19_Witness ==
  /\ lastOp.op = "move"
  /\ lastOp.ok
  /\ Len(historyStack) > 0
  /\ score > Last(historyStack).score
  /\ score = Last(historyStack).score + mergeGain(Last(historyStack).board, board)

\* C20 as stated: after every operation bestScore >= score, and no
\* operation (move, undo, new session, save, resume) lowers bestScore
C20_BestScoreMonotone ==
  [][ bestScore' >= score' /\ bestScore' >= bestScore ]_vars

\* C20, the first half alone: after every operation bestScore >= score
C20_BestScoreAboveScore == bestScore >= score

\* 2, 4, 8, ...
RECURSIVE isPowerOfTwo(_)
isPowerOfTwo(v) ==
  IF v < 2 THEN FALSE
  ELSE IF v = 2 THEN TRUE
  ELSE v % 2 = 0 /\ isPowerOfTwo(v \div 2)

isGrid(b) ==
  /\ Len(b) = SIZE
  /\ \A r \in Rows :
       /\ Len(b[r]) = SIZE
       /\ \A c \in Rows : b[r][c] = null \/ isPowerOfTwo(b[r][c])

\* C21: once a session exists (the script starts with board = []), the
\* board is a 4x4 grid whose cells are empty or a power of two >= 2, and
\* so are the boards of the snapshots and of the stored record
C21_BoardOfPowers ==
  /\ board # <<>> => isGrid(board)
  /\ \A i \in 1..Len(historyStack) : isGrid(historyStack[i].board)
  /\ lsGameState # <<>> => isGrid(boardFromJSON(lsGameState[1][2].board))

\* a move has merged tiles and a 4 was spawned, on a board with a tile
\* above 4
C21_Witness ==
  /\ lastOp.op = "move"
  /\ lastOp.ok
  /\ lineRes # <<>> /\ lineRes[1].rnd.tenths = 9
  /\ score > Last(historyStack).score
  /\ \E r \in Rows : \E c \in Rows : board[r][c] > 4

\* the cells of the board that hold a tile
tiles(b) == {rc \in Rows \X Rows : b[rc[1]][rc[2]] # null}

\* the durations a timed session can start with: the default, or
\* Math.floor(minutes * 60) of a custom number of minutes
StartDurations == {DefaultTime} \cup {(m * 60) \div 100 : m \in CustomMinutes}

\* C22: right after a session was started, whatever came before, the board
\* holds exactly two tiles, each 2 or 4, score is 0, won is false, the
\* history is empty and undosRemaining is 3; an untimed session has no
\* countdown scheduled, a timed one exactly one, started at 300 seconds or
\* at the custom duration
C22_FreshStart ==
  lastOp.op = "start" =>
    /\ Cardinality(tiles(board)) = 2
    /\ \A rc \in tiles(board) : board[rc[1]][rc[2]] \in {2, 4}
    /\ score = 0
    /\ ~won
    /\ historyStack = <<>>
    /\ undosRemaining = InitialUndos
    /\ ~isTimedGame => timerInterval = "null" /\ intervals.main + intervals.keep = 0
    /\ isTimedGame => /\ timerInterval # "null"
                       /\ intervals.main + intervals.keep = 1
                       /\ timeRemaining \in StartDurations

\* a second session was started, timed with a custom duration, after a
\* session in which a move was made and a best score set
C22_Witness ==
  /\ lastOp.op = "start"
  /\ count.starts = 2
  /\ count.moves = 1
  /\ bestScore > 0
  /\ isTimedGame
  /\ timeRemaining # DefaultTime

\* b1 is b0 with one tile, a 2 or a 4, put into one of its empty cells
oneTileAdded(b0, b1) ==
  \E rc \in Rows \X Rows :
    /\ b0[rc[1]][rc[2]] = null
    /\ b1[rc[1]][rc[2]] \in {2, 4}
    /\ \A other \in (Rows \X Rows) \ {rc} : b1[other[1]][other[2]] = b0[other[1]][other[2]]

\* C23: a direction key that moves the board leaves the board its move
\* gives (which has an empty cell) with exactly one tile added: a 2 or a 4
\* in a cell that was empty after the slide, every other cell as the slide
\* left it
C23_OneSpawn ==
  [][ lastOp'.op = "move" /\ lastOp'.ok /\ lineRes' # <<>> =>
        \E m \in {moveByKey(lineRes'[1].key, board, score, won)} :
          /\ m.changed
          /\ oneTileAdded(m.board, board') ]_vars

\* a move was made and the spawn drew the last empty cell and a 4
C23_Witness ==
  /\ lastOp.op = "move"
  /\ lastOp.ok
  /\ lineRes # <<>>
  /\ lineRes[1].rnd = [cell |-> 9, tenths |-> 9]
  /\ Cardinality(tiles(board)) >= 3

\* the board with every row reversed, and the board with rows and columns
\* exchanged
mirror(b) == [r \in Rows |-> reverse(b[r])]

transpose(b) == [r \in Rows |-> [c \in Rows |-> b[c][r]]]

\* the move m is the move n with its board mapped back
sameMove(m, n, nBoard) ==
  /\ m.board = nBoard
  /\ m.changed = n.changed
  /\ m.score = n.score
  /\ m.won = n.won

rightIsLeftMirrored(b, sc, wn, n) == sameMove(moveRight(b, sc, wn), n, mirror(n.board))

upIsLeftTransposed(b, sc, wn, n) == sameMove(moveUp(b, sc, wn), n, transpose(n.board))

downIsRightTransposed(b, sc, wn, n) == sameMove(moveDown(b, sc, wn), n, transpose(n.board))

\* C24: on every board a right move is the left move of the mirrored board
\* mirrored back, an up move the left move of the transposed board
\* transposed back, a down move the right move of the transposed board
\* transposed back, each with the same changed flag and the same score
\* (and won flag)
C24_DirectionsBySymmetry ==
  /\ rightIsLeftMirrored(board, score, won, moveLeft(mirror(board), score, won))
  /\ upIsLeftTransposed(board, score, won, moveLeft(transpose(board), score, won))
  /\ downIsRightTransposed(board, score, won, moveRight(transpose(board), score, won))

\* a right move of a board whose first row was 2 2 2 _ made it _ _ 2 4
C24_Witness ==
  /\ lastOp.op = "ArrowRight"
  /\ Len(lineRes) = 1
  /\ lineRes[1].before[1] = <<2, 2, 2, null>>
  /\ lineRes[1].gain >= 4
  /\ board[1] = <<null, null, 2, 4>>

\* the sum of the tiles of a line
RECURSIVE lineSum(_)
lineSum(l) == IF l = <<>> THEN 0 ELSE Head(l) + lineSum(Tail(l))

\* Math.random() < 0.9 ? 2 : 4
drawnValue(rnd) == IF rnd.tenths < 9 THEN 2 ELSE 4

\* the move m of the board b under key keeps the sum of every line; the
\* board b1 after the spawn has the drawn tile more, and as many tiles as
\* b less one per merge plus one
conserves(key, b, m, b1, drawn) ==
  /\ \A k \in Rows : lineSum(lineTowards(key, m.board, k)) = lineSum(lineTowards(key, b, k))
  /\ tileSum(m.board) = tileSum(b)
  /\ drawn \in {2, 4}
  /\ tileSum(b1) = tileSum(b) + drawn
  /\ Cardinality(tiles(b1)) = Cardinality(tiles(b)) - m.merges + 1

\* C25: the move of a successful direction key keeps the sum of the tiles
\* of every line, and so of the board; the whole handler raises the sum of
\* the board by the value of the spawned tile, 2 or 4, and leaves as many
\* tiles as before, less one per merge, plus one
C25_TilesConserved ==
  [][ lastOp'.op = "move" /\ lastOp'.ok /\ lineRes' # <<>> =>
        \E m \in {moveByKey(lineRes'[1].key, board, score, won)} :
          conserves(lineRes'[1].key, board, m, board', drawnValue(lineRes'[1].rnd)) ]_vars

\* a move has merged two tiles and a 4 was spawned: as many tiles as before
C25_Witness ==
  /\ lastOp.op = "move"
  /\ lastOp.ok
  /\ lineRes # <<>> /\ lineRes[1].rnd.tenths = 9
  /\ Len(historyStack) > 0
  /\ Cardinality(tiles(board)) = Cardinality(tiles(Last(historyStack).board))
  /\ tileSum(board) = tileSum(Last(historyStack).board) + 4

\* stopping a stopped countdown changes nothing
stopIsIdempotent(w) ==
  /\ stopTimer(stopTimer(w)) = stopTimer(w)
  /\ w.timerInterval = "null" => stopTimer(w) = w

\* C26: at most one periodic callback that decrements timeRemaining is
\* scheduled at any time, whether startTimer or the keep-playing button
\* scheduled it, and stopTimer is idempotent
C26_OneCountdown ==
  /\ intervals.main + intervals.keep <= 1
  /\ stopIsIdempotent(World)

\* the keep-playing button was clicked in a timed session that has won
\* while its countdown runs: still one callback
C26_Witness ==
  /\ lastOp.op = "keep"
  /\ isTimedGame
  /\ won
  /\ messageDisplay = "none"
  /\ intervals.main + intervals.keep = 1

\* some direction is a legal move of the board
playable(b) == \E key \in Keys : wouldMove(key, b)

\* C27 as stated: a board without a legal move is always accompanied by
\* the game-over notification, so that whenever direction inputs are
\* accepted (no message overlay) some direction is a legal move; after
\* undo and after resume too
C27_NoStuckPlay ==
  board # <<>> /\ ~playable(board) =>
    messageDisplay = "flex" /\ messageText \in {"Game Over", "Time's up! Game Over"}

====
